---- MODULE Spec2Model ----
(***************************************************************************)
(* Model of diamond_op (src/src/lib.rs): a reader that walks the sources   *)
(* named by the command line (files, or standard input for "-") and reads  *)
(* them segmented (read_until / read_line / line_iter) or as one stream    *)
(* (reader()).                                                             *)
(***************************************************************************)
EXTENDS Integers, Sequences, FiniteSets, TLC

VARIABLES
    argv,       \* the process's argument vector, program name first
    current,    \* DiamondInner.current : Option<Reader>
    remaining,  \* DiamondInner.remaining : Readers<Args>, i.e. Args(Option<Fuse<ArgsOs>>)
    stdin,      \* the process-wide buffered standard input behind every StdinLock
    held,       \* number of live Reader values (open files / standard-input locks)
    mode,       \* which value the caller owns: the Diamond, its line_iter() or its reader()
    buf,        \* the caller's buffer handed to read_until / read_line
    peek,       \* the slice the last fill_buf lent to the caller and not yet consumed
    last,       \* the result of the last operation
    delivered,  \* every byte handed to the caller by successful reads, in order
    failed,     \* some operation has returned Err
    pulled,     \* the tokens Args::next has yielded so far, in order
    openErrs,   \* the ordinals of the tokens whose open failure has been returned
    eof         \* 0: no read has returned the end-of-everything result; 1: one has;
                \* 2: a read operation has run after that

vars == <<argv, current, remaining, stdin, held, mode, buf, peek, last, delivered, failed,
          pulled, openErrs, eof>>

(***************************************************************************)
(* Bounds of the model.                                                    *)
(***************************************************************************)
MaxArgs == 3     \* longest argument list explored
BufCap == 2      \* capacity of a source's buffer: the most one platform read returns
MaxBuf == 1      \* the caller clears its buffer before it grows past this
MaxRead == 1     \* longest caller buffer passed to Read::read
MaxFailAt == 1   \* which of a call's platform reads of standard input may fail: the 1st .. this one

(***************************************************************************)
(* The environment: bytes, the file system and standard input.             *)
(***************************************************************************)
NL == 10         \* b'\n', the delimiter of read_line

Files == [A |-> <<120, NL, 121>>, B |-> <<122, NL>>, E |-> <<>>]

\* What standard input holds: a line, then a byte (0xFF) that is never UTF-8.
StdinData == <<NL, 255>>

\* "N" names no file: opening it fails.
Tokens == {"A", "B", "E", "N", "-"}

Delims == {NL, 121}

RECURSIVE SeqsUpTo(_, _)
SeqsUpTo(S, n) ==
    IF n = 0 THEN {<<>>}
    ELSE LET shorter == SeqsUpTo(S, n - 1)
         IN shorter \cup {Append(s, x) : s \in {t \in shorter : Len(t) = n - 1}, x \in S}

Min(a, b) == IF a < b THEN a ELSE b

Max(a, b) == IF a < b THEN b ELSE a

\* Valid for this alphabet: every byte is ASCII or 0xFF.
ValidUtf8(bytes) == \A i \in 1..Len(bytes) : bytes[i] < 128

(***************************************************************************)
(* Option and io::Result values.                                           *)
(***************************************************************************)
None == <<>>

Some(x) == <<x>>

IsSome(o) == o # <<>>

Ok(n) == [ok |-> TRUE, n |-> n, err |-> ""]

Err(e) == [ok |-> FALSE, n |-> 0, err |-> e]

\* One step of a call, kept in the call's record for the properties.
Event(e, idx, tok, from, n) == [e |-> e, idx |-> idx, tok |-> tok, from |-> from, n |-> n]

(***************************************************************************)
(* The state a call works on: the DiamondInner, the shared standard input, *)
(* and this call's input failAt: which of its platform reads of standard   *)
(* input fails with an I/O error, 0 for none (reads of files succeed).     *)
(***************************************************************************)
Start(failAt) ==
    [current |-> current, remaining |-> remaining, stdin |-> stdin, held |-> held,
     maxHeld |-> held, pulled |-> pulled, events |-> <<>>, iters |-> 0,
     start |-> IF IsSome(current) THEN current[1].idx ELSE 0,
     reads |-> 0, failAt |-> failAt]

Data(r) == IF r.tok = "-" THEN StdinData ELSE Files[r.tok]

\* The buffer position of the current source: a File owns its BufReader,
\* every StdinLock shares the process-wide one.
Cursor(d) ==
    LET r == d.current[1]
    IN IF r.tok = "-" THEN d.stdin ELSE [pos |-> r.pos, avail |-> r.avail]

SetCursor(d, c) ==
    LET r == d.current[1]
    IN IF r.tok = "-" THEN [d EXCEPT !.stdin = c]
       ELSE [d EXCEPT !.current = Some([r EXCEPT !.pos = c.pos, !.avail = c.avail])]

Log(d, e) == [d EXCEPT !.events = Append(@, e)]

(***************************************************************************)
(* impl BufRead for Reader (lib.rs 291-299): both variants delegate to a   *)
(* buffered reader.  fill_buf refills the buffer with one platform read    *)
(* only when it is empty; consume moves the position inside the buffer.    *)
(***************************************************************************)
ReaderFillBuf(d) ==
    LET c == Cursor(d)
        data == Data(d.current[1])
        n == Min(BufCap, Len(data) - c.pos)
    IN IF c.avail > 0
       THEN [d |-> d, ok |-> TRUE, slice |-> SubSeq(data, c.pos + 1, c.pos + c.avail)]
       ELSE IF d.current[1].tok # "-"
            THEN [d |-> SetCursor(d, [pos |-> c.pos, avail |-> n]),
                  ok |-> TRUE, slice |-> SubSeq(data, c.pos + 1, c.pos + n)]
       ELSE IF d.reads + 1 = d.failAt
            THEN [d |-> [d EXCEPT !.reads = @ + 1], ok |-> FALSE, slice |-> <<>>]
            ELSE [d |-> SetCursor([d EXCEPT !.reads = @ + 1], [pos |-> c.pos, avail |-> n]),
                  ok |-> TRUE, slice |-> SubSeq(data, c.pos + 1, c.pos + n)]

ReaderConsume(d, amount) ==
    LET c == Cursor(d)
        amt == Min(amount, c.avail)
    IN SetCursor(d, [pos |-> c.pos + amt, avail |-> c.avail - amt])

\* memchr: index of the first occurrence of byte in slice, 0 when absent.
MemChr(byte, slice) ==
    IF \E i \in 1..Len(slice) : slice[i] = byte
    THEN CHOOSE i \in 1..Len(slice) : slice[i] = byte /\ \A j \in 1..(i - 1) : slice[j] # byte
    ELSE 0

(***************************************************************************)
(* BufRead::read_until on the current source, as called at lib.rs 132:     *)
(* fill, copy up to and including the delimiter, consume, until the        *)
(* delimiter was copied or the source gave nothing.  A failed platform     *)
(* read returns the error; bytes copied before it stay copied.             *)
(***************************************************************************)
RECURSIVE StdReadUntil(_, _, _, _)
\* A pass that consumes the delimiter without copying it.
ReadUntilPassStripDelim(f, byte, out, read) ==
    LET i == MemChr(byte, f.slice)
        used == IF i > 0 THEN i ELSE Len(f.slice)
    IN IF ~f.ok THEN [d |-> f.d, out |-> out, ret |-> Err("Io")]
       ELSE IF i > 0
            THEN [d |-> ReaderConsume(f.d, used), out |-> out \o SubSeq(f.slice, 1, used - 1),
                  ret |-> Ok(read + used)]
       ELSE IF used = 0
            THEN [d |-> f.d, out |-> out, ret |-> Ok(read)]
       ELSE StdReadUntil(ReaderConsume(f.d, used), byte, out \o SubSeq(f.slice, 1, used),
                         read + used)

\* One pass of its loop, f being what fill_buf returned.
ReadUntilPass(f, byte, out, read) ==
    LET i == MemChr(byte, f.slice)
        used == IF i > 0 THEN i ELSE Len(f.slice)
    IN IF ~f.ok THEN [d |-> f.d, out |-> out, ret |-> Err("Io")]
       ELSE IF i > 0 \/ used = 0
            THEN [d |-> ReaderConsume(f.d, used), out |-> out \o SubSeq(f.slice, 1, used),
                  ret |-> Ok(read + used)]
       ELSE StdReadUntil(ReaderConsume(f.d, used), byte, out \o SubSeq(f.slice, 1, used),
                         read + used)

StdReadUntil(d, byte, out, read) == ReadUntilPass(ReaderFillBuf(d), byte, out, read)

(***************************************************************************)
(* BufRead::read_line on the current source, as called at lib.rs 136:      *)
(* read_until(b'\n') into the String's bytes; when the appended bytes are  *)
(* not UTF-8 the String is cut back to its old length and the call fails   *)
(* with InvalidData (or with the read error, if there was one).  The       *)
(* source has consumed the bytes either way.                               *)
(***************************************************************************)
\* r is what read_until returned, out the String before the call.
CheckUtf8(r, out) ==
    IF ValidUtf8(SubSeq(r.out, Len(out) + 1, Len(r.out))) THEN r
    ELSE [d |-> r.d, out |-> out, ret |-> IF r.ret.ok THEN Err("InvalidData") ELSE r.ret]

StdReadLine(d, out) == CheckUtf8(StdReadUntil(d, NL, out, 0), out)

\* The closure read_inner is given: |reader| reader.read_until(byte, buf)
\* or |reader| reader.read_line(buf).
ReadUntilFn(byte) == [op |-> "read_until", byte |-> byte]

ReadLineFn == [op |-> "read_line", byte |-> NL]

\* A read_until that ignores its delimiter argument and splits at newlines.
CallFNewlineOnly(f, d, out) ==
    IF f.op = "read_until" THEN StdReadUntil(d, NL, out, 0) ELSE StdReadLine(d, out)

\* A read_until that writes into a cleared buffer instead of appending.
CallFOverwrite(f, d, out) ==
    IF f.op = "read_until" THEN StdReadUntil(d, f.byte, <<>>, 0) ELSE StdReadLine(d, out)

CallF(f, d, out) ==
    IF f.op = "read_until" THEN StdReadUntil(d, f.byte, out, 0) ELSE StdReadLine(d, out)

(***************************************************************************)
(* Args::next (lib.rs 232-240).  remaining is None until the first call,   *)
(* then Some(i): argv[i] is the next element the fused ArgsOs returns.     *)
(***************************************************************************)
\* Fuse<ArgsOs>::next from position i: past the end it keeps returning None.
FuseNext(i) ==
    IF i <= Len(argv) THEN [item |-> Some(argv[i]), pos |-> i + 1]
    ELSE [item |-> None, pos |-> i]

\* An Args that forgets its iterator once it has run out, and starts over.
ArgsNextRestart(d) ==
    IF IsSome(d.remaining)
    THEN LET nx == FuseNext(d.remaining[1])
         IN [d |-> [d EXCEPT !.remaining = IF IsSome(nx.item) THEN Some(nx.pos) ELSE None],
             item |-> nx.item]
    ELSE LET nx == FuseNext(FuseNext(1).pos)
         IN [d |-> [d EXCEPT !.remaining = Some(nx.pos)],
             item |-> IF IsSome(nx.item) THEN nx.item ELSE Some("-")]

\* An Args that does not skip the program name.
ArgsNextNoSkip(d) ==
    IF IsSome(d.remaining)
    THEN LET nx == FuseNext(d.remaining[1])
         IN [d |-> [d EXCEPT !.remaining = Some(nx.pos)], item |-> nx.item]
    ELSE LET nx == FuseNext(1)
         IN [d |-> [d EXCEPT !.remaining = Some(nx.pos)],
             item |-> IF IsSome(nx.item) THEN nx.item ELSE Some("-")]

ArgsNext(d) ==
    IF IsSome(d.remaining)
    THEN LET nx == FuseNext(d.remaining[1])
         IN [d |-> [d EXCEPT !.remaining = Some(nx.pos)], item |-> nx.item]
    ELSE LET nx == FuseNext(FuseNext(1).pos)     \* args.next(): skip program name
         IN [d |-> [d EXCEPT !.remaining = Some(nx.pos)],
             item |-> IF IsSome(nx.item) THEN nx.item ELSE Some("-")]

(***************************************************************************)
(* Reader::open (lib.rs 267-274): "-" locks standard input, anything else  *)
(* is opened as a file.  idx is the ordinal of the token among the tokens  *)
(* pulled; a new Reader is one more live handle.                           *)
(***************************************************************************)
ReaderOpen(d, arg, idx) ==
    IF arg = "-" \/ arg \in DOMAIN Files
    THEN [d |-> Log([d EXCEPT !.held = @ + 1, !.maxHeld = Max(@, d.held + 1)],
                    Event("open", idx, arg, 0, 0)),
          some |-> TRUE, ok |-> TRUE,
          reader |-> [tok |-> arg, idx |-> idx, pos |-> 0, avail |-> 0]]
    ELSE [d |-> Log(d, Event("openfail", idx, arg, 0, 0)),
          some |-> TRUE, ok |-> FALSE, reader |-> <<>>]

\* A provider that puts a token back when it fails to open.
MapOpenPutBack(a) ==
    IF IsSome(a.item)
    THEN IF a.item[1] = "-" \/ a.item[1] \in DOMAIN Files
         THEN ReaderOpen([a.d EXCEPT !.pulled = Append(@, a.item[1])], a.item[1],
                         Len(a.d.pulled) + 1)
         ELSE ReaderOpen([a.d EXCEPT !.pulled = Append(@, a.item[1]),
                                     !.remaining = Some(@[1] - 1)],
                         a.item[1], Len(a.d.pulled) + 1)
    ELSE [d |-> a.d, some |-> FALSE, ok |-> TRUE, reader |-> <<>>]

\* Readers::next (lib.rs 254-256): self.0.next().map(|arg| Reader::open(arg.as_ref())),
\* a being what self.0.next() returned.
MapOpen(a) ==
    IF IsSome(a.item)
    THEN ReaderOpen([a.d EXCEPT !.pulled = Append(@, a.item[1])], a.item[1],
                    Len(a.d.pulled) + 1)
    ELSE [d |-> a.d, some |-> FALSE, ok |-> TRUE, reader |-> <<>>]

ReadersNext(d) == MapOpen(ArgsNext(d))

\* An assignment to self.current: the value it held before is dropped.
SetCurrent(d, v) ==
    IF IsSome(d.current)
    THEN [Log(d, Event("drop", d.current[1].idx, d.current[1].tok, 0, 0))
            EXCEPT !.held = @ - 1, !.current = v]
    ELSE [d EXCEPT !.current = v]

\* One more pass of a read loop.
Pass(d) == [d EXCEPT !.iters = @ + 1]

\* The step a delegated read on the current source leaves in the call's record.
ReadEvent(d, ok, n) ==
    Event(IF ok THEN "read" ELSE "readerr", d.current[1].idx, d.current[1].tok,
          Cursor(d).pos, n)

(***************************************************************************)
(* DiamondInner::read_inner (lib.rs 199-213).                              *)
(***************************************************************************)
RECURSIVE read_inner(_, _, _)
\* A loop that advances eagerly: when the current source is exhausted it
\* opens the next one first and only then replaces the current one.
EagerAdvance(nx, f, out) ==
    IF ~nx.some THEN read_inner(SetCurrent(nx.d, None), f, out)
    ELSE IF ~nx.ok THEN [d |-> nx.d, out |-> out, ret |-> Err("NotFound")]
    ELSE read_inner(SetCurrent(nx.d, Some(nx.reader)), f, out)

AfterReadEager(d, r, f) ==
    IF ~r.ret.ok
    THEN [d |-> Log(r.d, ReadEvent(d, FALSE, 0)), out |-> r.out, ret |-> r.ret]
    ELSE IF r.ret.n # 0
    THEN [d |-> Log(r.d, ReadEvent(d, TRUE, r.ret.n)), out |-> r.out, ret |-> Ok(r.ret.n)]
    ELSE EagerAdvance(ReadersNext(Log(r.d, ReadEvent(d, TRUE, 0))), f, r.out)

\* A loop that gives up the current source when a read of it fails.
AfterReadDropOnErr(d, r, f) ==
    IF ~r.ret.ok
    THEN [d |-> SetCurrent(Log(r.d, ReadEvent(d, FALSE, 0)), None), out |-> r.out,
          ret |-> r.ret]
    ELSE IF r.ret.n # 0
    THEN [d |-> Log(r.d, ReadEvent(d, TRUE, r.ret.n)), out |-> r.out, ret |-> Ok(r.ret.n)]
    ELSE read_inner(SetCurrent(Log(r.d, ReadEvent(d, TRUE, 0)), None), f, r.out)

\* A loop that pulls the next token as soon as a read has drained the current source.
AfterReadPrefetch(d, r, f) ==
    IF ~r.ret.ok
    THEN [d |-> Log(r.d, ReadEvent(d, FALSE, 0)), out |-> r.out, ret |-> r.ret]
    ELSE IF r.ret.n # 0 /\ Cursor(r.d).pos < Len(Data(d.current[1]))
    THEN [d |-> Log(r.d, ReadEvent(d, TRUE, r.ret.n)), out |-> r.out, ret |-> Ok(r.ret.n)]
    ELSE IF r.ret.n # 0
    THEN [d |-> ReadersNext(Log(r.d, ReadEvent(d, TRUE, r.ret.n))).d, out |-> r.out,
          ret |-> Ok(r.ret.n)]
    ELSE read_inner(SetCurrent(Log(r.d, ReadEvent(d, TRUE, 0)), None), f, r.out)

\* A loop that closes the current source as soon as a read has drained it.
AfterReadCloseDrained(d, r, f) ==
    IF ~r.ret.ok
    THEN [d |-> Log(r.d, ReadEvent(d, FALSE, 0)), out |-> r.out, ret |-> r.ret]
    ELSE IF r.ret.n # 0 /\ Cursor(r.d).pos < Len(Data(d.current[1]))
    THEN [d |-> Log(r.d, ReadEvent(d, TRUE, r.ret.n)), out |-> r.out, ret |-> Ok(r.ret.n)]
    ELSE IF r.ret.n # 0
    THEN [d |-> SetCurrent(Log(r.d, ReadEvent(d, TRUE, r.ret.n)), None), out |-> r.out,
          ret |-> Ok(r.ret.n)]
    ELSE read_inner(SetCurrent(Log(r.d, ReadEvent(d, TRUE, 0)), None), f, r.out)

\* A loop that reports the end of the current source as the end of input.
AfterReadStopAtEmpty(d, r, f) ==
    IF ~r.ret.ok
    THEN [d |-> Log(r.d, ReadEvent(d, FALSE, 0)), out |-> r.out, ret |-> r.ret]
    ELSE IF r.ret.n # 0
    THEN [d |-> Log(r.d, ReadEvent(d, TRUE, r.ret.n)), out |-> r.out, ret |-> Ok(r.ret.n)]
    ELSE [d |-> SetCurrent(Log(r.d, ReadEvent(d, TRUE, 0)), None), out |-> r.out,
          ret |-> Ok(0)]

\* A loop that reads a source that returned 0 once more before dropping it.
AfterReadRetryEmpty(d, r, f) ==
    IF ~r.ret.ok
    THEN [d |-> Log(r.d, ReadEvent(d, FALSE, 0)), out |-> r.out, ret |-> r.ret]
    ELSE IF r.ret.n # 0
    THEN [d |-> Log(r.d, ReadEvent(d, TRUE, r.ret.n)), out |-> r.out, ret |-> Ok(r.ret.n)]
    ELSE read_inner(SetCurrent(Log(Pass(Log(r.d, ReadEvent(d, TRUE, 0))),
                                   ReadEvent(d, TRUE, 0)), None), f, r.out)

\* The branch `if let Some(reader) = &mut self.current` (lib.rs 201-206),
\* r being what f(reader) returned.
AfterRead(d, r, f) ==
    IF ~r.ret.ok
    THEN [d |-> Log(r.d, ReadEvent(d, FALSE, 0)), out |-> r.out, ret |-> r.ret]
    ELSE IF r.ret.n # 0
    THEN [d |-> Log(r.d, ReadEvent(d, TRUE, r.ret.n)), out |-> r.out, ret |-> Ok(r.ret.n)]
    ELSE read_inner(SetCurrent(Log(r.d, ReadEvent(d, TRUE, 0)), None), f, r.out)

\* A loop that swallows an open failure and goes on to the next token.
AfterNextSkipFailed(nx, f, out) ==
    IF ~nx.some THEN [d |-> nx.d, out |-> out, ret |-> Ok(0)]
    ELSE IF ~nx.ok THEN read_inner(nx.d, f, out)
    ELSE read_inner(SetCurrent(nx.d, Some(nx.reader)), f, out)

\* The branch `else if let Some(reader) = self.remaining.next()` and the final
\* `else` (lib.rs 207-211), nx being what self.remaining.next() returned.
AfterNext(nx, f, out) ==
    IF ~nx.some THEN [d |-> nx.d, out |-> out, ret |-> Ok(0)]
    ELSE IF ~nx.ok THEN [d |-> nx.d, out |-> out, ret |-> Err("NotFound")]
    ELSE read_inner(SetCurrent(nx.d, Some(nx.reader)), f, out)

read_inner(d, f, out) ==
    IF IsSome(d.current) THEN AfterRead(Pass(d), CallF(f, Pass(d), out), f)
    ELSE AfterNext(ReadersNext(Pass(d)), f, out)

(***************************************************************************)
(* SingleStreamReader (lib.rs 151-194): fill_buf, consume and read.        *)
(***************************************************************************)
RECURSIVE fill_buf(_)
\* A fill that hands the caller the empty buffer of an exhausted source.
AfterFillStopAtEmpty(d, r) ==
    IF ~r.ok
    THEN [d |-> Log(r.d, ReadEvent(d, FALSE, 0)), slice |-> <<>>, ret |-> Err("Io")]
    ELSE IF r.slice # <<>>
    THEN [d |-> Log(r.d, ReadEvent(d, TRUE, Len(r.slice))), slice |-> r.slice,
          ret |-> Ok(Len(r.slice))]
    ELSE [d |-> SetCurrent(Log(r.d, ReadEvent(d, TRUE, 0)), None), slice |-> <<>>,
          ret |-> Ok(0)]

\* The branch `if let Some(reader) = &mut self.0.current` (lib.rs 172-180),
\* r being what reader.fill_buf() returned.
AfterFill(d, r) ==
    IF ~r.ok
    THEN [d |-> Log(r.d, ReadEvent(d, FALSE, 0)), slice |-> <<>>, ret |-> Err("Io")]
    ELSE IF r.slice # <<>>
    THEN [d |-> Log(r.d, ReadEvent(d, TRUE, Len(r.slice))), slice |-> r.slice,
          ret |-> Ok(Len(r.slice))]
    ELSE fill_buf(SetCurrent(Log(r.d, ReadEvent(d, TRUE, 0)), None))

\* The branches of lib.rs 181-185, nx being what self.0.remaining.next() returned.
AfterNextFill(nx) ==
    IF ~nx.some THEN [d |-> nx.d, slice |-> <<>>, ret |-> Ok(0)]
    ELSE IF ~nx.ok THEN [d |-> nx.d, slice |-> <<>>, ret |-> Err("NotFound")]
    ELSE fill_buf(SetCurrent(nx.d, Some(nx.reader)))

fill_buf(d) ==
    IF IsSome(d.current) THEN AfterFill(Pass(d), ReaderFillBuf(Pass(d)))
    ELSE AfterNextFill(ReadersNext(Pass(d)))

\* A consume that does not reach the current source.
consumeNothing(d, amount) == d

\* A consume that closes the current source once its buffer is used up.
consumeAndClose(d, amount) ==
    IF IsSome(d.current)
    THEN IF amount >= Cursor(d).avail THEN SetCurrent(ReaderConsume(d, amount), None)
         ELSE ReaderConsume(d, amount)
    ELSE d

consume(d, amount) ==
    IF IsSome(d.current) THEN ReaderConsume(d, amount) ELSE d

\* A read that consumes the whole peek buffer, whatever fitted the caller's buffer.
ReadFilledConsumeAll(f, len) ==
    IF ~f.ret.ok THEN [d |-> f.d, out |-> <<>>, ret |-> f.ret]
    ELSE [d |-> consume(f.d, Len(f.slice)),
          out |-> SubSeq(f.slice, 1, Min(len, Len(f.slice))),
          ret |-> Ok(Min(len, Len(f.slice)))]

\* read (lib.rs 158-162): n = self.fill_buf()?.read(buf)?; self.consume(n); Ok(n),
\* f being what self.fill_buf() returned.  The slice copies min(len, its
\* length) bytes into the caller's buffer.
ReadFilled(f, len) ==
    IF ~f.ret.ok THEN [d |-> f.d, out |-> <<>>, ret |-> f.ret]
    ELSE [d |-> consume(f.d, Min(len, Len(f.slice))),
          out |-> SubSeq(f.slice, 1, Min(len, Len(f.slice))),
          ret |-> Ok(Min(len, Len(f.slice)))]

read(d, len) == ReadFilled(fill_buf(d), len)

(***************************************************************************)
(* The state machine: one action per public operation.                    *)
(***************************************************************************)
ArgLists == SeqsUpTo(Tokens, MaxArgs)

\* The operations that read: every one but consume goes through a read loop.
ReadOps == {"read_until", "read_line", "next_some", "next_none", "fill_buf", "read"}

NoCall == [op |-> "new", arg |-> 0, ret |-> Ok(0), data |-> <<>>, events |-> <<>>,
           maxHeld |-> 0, iters |-> 0, start |-> 0]

\* new() / Diamond::default() (lib.rs 24-26, 216-223): nothing is open.
Init ==
    /\ argv \in {<<"prog">> \o a : a \in ArgLists}
    /\ current = None
    /\ remaining = None
    /\ stdin = [pos |-> 0, avail |-> 0]
    /\ held = 0
    /\ mode = "diamond"
    /\ buf = <<>>
    /\ peek = <<>>
    /\ last = NoCall
    /\ delivered = <<>>
    /\ failed = FALSE
    /\ pulled = <<>>
    /\ openErrs = {}
    /\ eof = 0

\* What every operation leaves behind: the DiamondInner as the call left it
\* and the call's record.
Finish(op, arg, d, ret, data) ==
    /\ current' = d.current
    /\ remaining' = d.remaining
    /\ stdin' = d.stdin
    /\ held' = d.held
    /\ pulled' = d.pulled
    /\ last' = [op |-> op, arg |-> arg, ret |-> ret, data |-> data, events |-> d.events,
                maxHeld |-> d.maxHeld, iters |-> d.iters, start |-> d.start]
    /\ failed' = (failed \/ ~ret.ok)
    /\ delivered' = IF ret.ok THEN delivered \o data ELSE delivered
    /\ openErrs' = IF ret.err = "NotFound" THEN openErrs \cup {Len(d.pulled)} ELSE openErrs
    /\ eof' = IF op \notin ReadOps THEN eof
              ELSE IF eof >= 1 THEN 2
              ELSE IF ret.ok /\ ret.n = 0 /\ ~IsSome(d.current) THEN 1
              ELSE 0
    /\ argv' = argv

\* Diamond::read_until (lib.rs 53-55, 131-133).
ReadUntil(byte, failAt) ==
    /\ mode = "diamond"
    /\ Len(buf) <= MaxBuf
    /\ \E r \in {read_inner(Start(failAt), ReadUntilFn(byte), buf)} :
          /\ buf' = r.out
          /\ Finish("read_until", byte, r.d, r.ret, SubSeq(r.out, Len(buf) + 1, Len(r.out)))
    /\ UNCHANGED <<mode, peek>>

\* Diamond::read_line (lib.rs 73-75, 135-137).
ReadLine(failAt) ==
    /\ mode = "diamond"
    /\ Len(buf) <= MaxBuf
    /\ ValidUtf8(buf)
    /\ \E r \in {read_inner(Start(failAt), ReadLineFn, buf)} :
          /\ buf' = r.out
          /\ Finish("read_line", NL, r.d, r.ret, SubSeq(r.out, Len(buf) + 1, Len(r.out)))
    /\ UNCHANGED <<mode, peek>>

\* The caller's buf.clear() between reads (examples/test_read_line.rs 11).
ClearBuf ==
    /\ mode = "diamond"
    /\ buf # <<>>
    /\ buf' = <<>>
    /\ UNCHANGED <<argv, current, remaining, stdin, held, mode, peek, last, delivered,
                   failed, pulled, openErrs, eof>>

\* Diamond::line_iter (lib.rs 95-97, 139-148): takes the Diamond, reads nothing yet.
\* The caller's own buffer plays no part from here on and is let go.
LineIter ==
    /\ mode = "diamond"
    /\ mode' = "line_iter"
    /\ buf' = <<>>
    /\ last' = [NoCall EXCEPT !.op = "line_iter", !.maxHeld = held]
    /\ UNCHANGED <<argv, current, remaining, stdin, held, peek, delivered, failed,
                   pulled, openErrs, eof>>

\* An iterator that yields its lines without their newline, as BufRead::lines does.
LineIterNextTrimmed(failAt) ==
    /\ mode = "line_iter"
    /\ \E r \in {read_inner(Start(failAt), ReadLineFn, <<>>)} :
          Finish(IF r.ret.ok /\ r.ret.n = 0 THEN "next_none" ELSE "next_some",
                 NL, r.d, r.ret,
                 IF r.out # <<>> /\ r.out[Len(r.out)] = NL
                 THEN SubSeq(r.out, 1, Len(r.out) - 1) ELSE r.out)
    /\ UNCHANGED <<mode, buf, peek>>

\* One step of the iterator (lib.rs 140-147): read_line into a fresh String;
\* Ok(0) ends the iteration (None), anything else is an item.
LineIterNext(failAt) ==
    /\ mode = "line_iter"
    /\ \E r \in {read_inner(Start(failAt), ReadLineFn, <<>>)} :
          Finish(IF r.ret.ok /\ r.ret.n = 0 THEN "next_none" ELSE "next_some",
                 NL, r.d, r.ret, r.out)
    /\ UNCHANGED <<mode, buf, peek>>

\* Diamond::reader (lib.rs 114-116, 150-197): takes the Diamond, reads nothing yet.
MakeReader ==
    /\ mode = "diamond"
    /\ mode' = "reader"
    /\ buf' = <<>>
    /\ last' = [NoCall EXCEPT !.op = "reader", !.maxHeld = held]
    /\ UNCHANGED <<argv, current, remaining, stdin, held, peek, delivered, failed,
                   pulled, openErrs, eof>>

\* SingleStreamReader::fill_buf (lib.rs 170-187): lends a slice, delivers nothing yet.
FillBuf(failAt) ==
    /\ mode = "reader"
    /\ \E f \in {fill_buf(Start(failAt))} :
          /\ peek' = f.slice
          /\ Finish("fill_buf", 0, f.d, f.ret, <<>>)
    /\ UNCHANGED <<mode, buf>>

\* SingleStreamReader::consume (lib.rs 189-193) of at most what fill_buf lent.
Consume(amount) ==
    /\ mode = "reader"
    /\ peek' = SubSeq(peek, amount + 1, Len(peek))
    /\ Finish("consume", amount, consume(Start(0), amount), Ok(amount),
              SubSeq(peek, 1, amount))
    /\ UNCHANGED <<mode, buf>>

\* SingleStreamReader::read (lib.rs 158-162) into a caller buffer of len bytes.
Read(len, failAt) ==
    /\ mode = "reader"
    /\ \E r \in {read(Start(failAt), len)} :
          Finish("read", len, r.d, r.ret, r.out)
    /\ peek' = <<>>
    /\ UNCHANGED <<mode, buf>>

\* The failures a call may meet: none, or an I/O error of standard input when
\* standard input is the current source or still to come.
StdinAhead ==
    \/ IsSome(current) /\ current[1].tok = "-"
    \/ ~IsSome(remaining)
    \/ IsSome(remaining) /\ \E i \in remaining[1]..Len(argv) : argv[i] = "-"

FailAts == IF StdinAhead THEN 0..MaxFailAt ELSE {0}

Next ==
    \/ \E byte \in Delims, failAt \in FailAts : ReadUntil(byte, failAt)
    \/ \E failAt \in FailAts : ReadLine(failAt)
    \/ ClearBuf
    \/ LineIter
    \/ \E failAt \in FailAts : LineIterNext(failAt)
    \/ MakeReader
    \/ \E failAt \in FailAts : FillBuf(failAt)
    \/ \E amount \in 0..Len(peek) : Consume(amount)
    \/ \E len \in 0..MaxRead, failAt \in FailAts : Read(len, failAt)

Spec == Init /\ [][Next]_vars

\* current_arg(), as examples/test_read_until.rs calls it: the token behind
\* the current source, if there is one.
current_arg == IF IsSome(current) THEN Some(current[1].tok) ELSE None

\* A step in which the caller reads on: a read operation other than a bare
\* fill_buf or a read into an empty buffer, meeting no I/O failure.
ReadsOn ==
    /\ last'.op \in ReadOps \ {"fill_buf"}
    /\ last'.op = "read" => last'.arg > 0
    /\ last'.ret.err # "Io"

\* The same program with a caller that keeps reading: weak fairness of the
\* reads that meet no I/O failure, written with their enabling condition,
\* which is that the end of all sources has not been returned yet.
LiveSpec == Spec /\ ([]<>(eof >= 1) \/ []<><<ReadsOn>>_vars)

(***************************************************************************)
(* Properties.                                                             *)
(***************************************************************************)
\* The tokens the reader is to walk: the arguments, or "-" when there are none.
ExpectedTokens == IF Tail(argv) = <<>> THEN <<"-">> ELSE Tail(argv)

\* What the k-th token contributes: a file its content, standard input what
\* it holds the first time it is named (later it is at its end already).
Contribution(k) ==
    LET tok == ExpectedTokens[k]
    IN IF tok = "-"
       THEN IF \E j \in 1..(k - 1) : ExpectedTokens[j] = "-" THEN <<>> ELSE StdinData
       ELSE IF tok \in DOMAIN Files THEN Files[tok] ELSE <<>>

RECURSIVE ContentUpTo(_)
ContentUpTo(k) == IF k = 0 THEN <<>> ELSE ContentUpTo(k - 1) \o Contribution(k)

AllContent == ContentUpTo(Len(ExpectedTokens))

IsPrefix(a, b) == Len(a) <= Len(b) /\ SubSeq(b, 1, Len(a)) = a

\* The record a delimiter-bounded read takes from data of which `from` bytes
\* are read: through the first delimiter, or through the end without one.
RecordEnd(data, from, byte) ==
    IF \E i \in (from + 1)..Len(data) : data[i] = byte
    THEN CHOOSE i \in (from + 1)..Len(data) :
            data[i] = byte /\ \A j \in (from + 1)..(i - 1) : data[j] # byte
    ELSE Len(data)

Record(data, from, byte) == SubSeq(data, from + 1, RecordEnd(data, from, byte))

LastEvent == last.events[Len(last.events)]

PositiveReads == {i \in 1..Len(last.events) : last.events[i].e = "read" /\ last.events[i].n > 0}

OpenFailures == {i \in 1..Len(last.events) : last.events[i].e = "openfail"}

RemainingExhausted == IsSome(remaining) /\ remaining[1] > Len(argv)

\* C1: while nothing has failed, a read_until / read_line that returns a
\* positive count appended bytes of exactly one source, the one now current:
\* its unread bytes through the first delimiter, or through its end when no
\* delimiter remains; the count is the number of bytes appended.
C1_OneSourcePerRead ==
    (~failed /\ last.op \in {"read_until", "read_line"} /\ last.ret.ok /\ last.ret.n > 0) =>
        /\ PositiveReads = {Len(last.events)}
        /\ last.data = Record(Data(LastEvent), LastEvent.from, last.arg)
        /\ last.ret.n = Len(last.data)
        /\ IsSome(current) /\ current[1].idx = LastEvent.idx

\* A="x\ny", B="z\n": the read_line after "x\n" has returned "y" alone, from A.
C1_Witness ==
    /\ argv = <<"prog", "A", "B">>
    /\ ~failed
    /\ last.op = "read_line" /\ last.ret = Ok(1) /\ last.data = <<121>>
    /\ delivered = <<120, NL, 121>>
    /\ pulled = <<"A">>

\* The stream has signalled its end: an empty fill_buf, or a read into a
\* non-empty buffer that returned 0.
StreamEnd ==
    /\ last.op \in {"fill_buf", "read"}
    /\ last.ret = Ok(0)
    /\ last.op = "read" => last.arg > 0

\* C2: while nothing has failed, the bytes the reader() stream has delivered
\* are a prefix of the concatenation of all sources' contents in token order,
\* and the whole of it once the stream has returned its zero-byte result.
C2_StreamIsConcatenation ==
    (mode = "reader" /\ ~failed) =>
        /\ IsPrefix(delivered, AllContent)
        /\ StreamEnd => delivered = AllContent

\* A="x\ny", B="z\n": the stream ended after delivering "x\nyz\n".
C2_Witness ==
    /\ argv = <<"prog", "A", "B">>
    /\ mode = "reader" /\ ~failed /\ StreamEnd
    /\ delivered = <<120, NL, 121, 122, NL>>

\* C3: once a read has returned the end-of-everything result, no source is
\* current and the sequence stays exhausted, and every read operation after
\* it returns Ok(0) too, delivering nothing and opening nothing.
C3_ExhaustedIsAbsorbing ==
    (eof >= 1) =>
        /\ ~IsSome(current) /\ RemainingExhausted /\ held = 0
        /\ last.op \in ReadOps => last.ret = Ok(0) /\ last.data = <<>>
        /\ (eof = 2 /\ last.op \in ReadOps) => last.events = <<>>

\* A read ran after the end was signalled, in a run that had seen an error.
C3_Witness == eof = 2 /\ failed /\ last.op \in ReadOps /\ last.ret = Ok(0)

\* C4: a read operation returns the open error exactly when it had to open a
\* token that fails to open; right after that error no source is current and
\* no handle is held, the failed open being the call's last step; and before
\* the failing token of [file, nonexistent, ...] is pulled nothing has failed.
C4_OpenFailureLeavesNoCurrent ==
    /\ last.op \in ReadOps => (OpenFailures # {} <=> last.ret.err = "NotFound")
    /\ last.ret.err = "NotFound" =>
          /\ ~IsSome(current) /\ held = 0
          /\ OpenFailures = {Len(last.events)}
          /\ LastEvent.idx = Len(pulled) /\ LastEvent.tok = "N"
    /\ (Len(argv) >= 3 /\ argv[2] \in DOMAIN Files /\ argv[3] = "N" /\ Len(pulled) <= 1)
          => ~failed

\* [A, nonexistent, B]: A was read to its end and the next read met the open error.
C4_Witness ==
    /\ argv = <<"prog", "A", "N", "B">>
    /\ last.ret.err = "NotFound"
    /\ delivered = Files["A"]
    /\ pulled = <<"A", "N">>

\* C5 as stated: with tokens [file, nonexistent, C], once the open failure of
\* the second token has been returned no read returns bytes from C.
C5_NeverReachedAfterFailure ==
    (Len(argv) = 4 /\ argv[2] \in DOMAIN Files /\ argv[3] = "N" /\ 2 \in openErrs) =>
        \A i \in PositiveReads : last.events[i].idx # 3

\* C5 amended: the read that returns an open failure ends at the failing
\* token: it appends nothing and the token after it is neither pulled nor
\* opened by that call; and no failing token is passed over unreported: every
\* failing token pulled so far has had its failure returned.  So the source
\* after a failing token is reached only by a read made after the error.
C5_ReachedOnlyByALaterRead ==
    /\ last.ret.err = "NotFound" =>
          /\ last.data = <<>>
          /\ Len(pulled) = LastEvent.idx
          /\ ~IsSome(current)
    /\ \A k \in 1..Len(pulled) : pulled[k] = "N" => k \in openErrs

\* [A, nonexistent, B]: after the reported open failure a further read has
\* opened B and returned its line.
C5_Witness ==
    /\ argv = <<"prog", "A", "N", "B">>
    /\ openErrs = {2}
    /\ IsSome(current) /\ current[1].idx = 3
    /\ last.op \in {"read_until", "read_line"} /\ last.data = <<122, NL>>

\* A step that is a read operation: it leaves a read's record and is not the
\* caller clearing its buffer.
ReadStep == last'.op \in ReadOps /\ ~(buf # <<>> /\ buf' = <<>>)

\* C6: the read operation after one that returned an open failure for token k
\* never touches token k again; it pulls token k+1, opening it and, if that
\* succeeds, reading from it, or returns Ok(0) without a step when token k
\* was the last; and an open failure is never returned twice for one token.
C6_FailedTokenIsSkipped ==
    [][ReadStep =>
          /\ last.ret.err = "NotFound" =>
                /\ \A i \in 1..Len(last'.events) : last'.events[i].idx > LastEvent.idx
                /\ IF LastEvent.idx < Len(ExpectedTokens)
                   THEN /\ last'.events # <<>>
                        /\ last'.events[1].e \in {"open", "openfail"}
                        /\ last'.events[1].idx = LastEvent.idx + 1
                        /\ last'.events[1].tok = ExpectedTokens[LastEvent.idx + 1]
                        /\ last'.events[1].e = "open" =>
                              /\ Len(last'.events) >= 2
                              /\ last'.events[2].e \in {"read", "readerr"}
                              /\ last'.events[2].idx = LastEvent.idx + 1
                   ELSE last'.ret = Ok(0) /\ last'.events = <<>>
          /\ last'.ret.err = "NotFound" => Len(pulled') \notin openErrs]_vars

\* [A, nonexistent, B]: the read after the open error opened B and read it.
C6_Witness ==
    /\ argv = <<"prog", "A", "N", "B">>
    /\ openErrs = {2}
    /\ Len(last.events) = 2
    /\ last.events[1] = Event("open", 3, "B", 0, 0)
    /\ last.events[2].e = "read" /\ last.events[2].idx = 3 /\ last.events[2].n > 0

ReadErrs == {"Io", "InvalidData"}

\* C7: a read operation that returns a read failure (I/O error or invalid
\* UTF-8) ends at the failed read: the source it read is still current and
\* held, no token was pulled after it; and the read operation that follows
\* starts by reading that same source.
C7_ReadFailureKeepsCurrent ==
    [][ReadStep =>
          /\ last'.ret.err \in ReadErrs =>
                /\ IsSome(current') /\ held' = 1
                /\ last'.events[Len(last'.events)].e = "readerr"
                /\ last'.events[Len(last'.events)].idx = current'[1].idx
                /\ Len(pulled') = current'[1].idx
          /\ last.ret.err \in ReadErrs =>
                /\ last'.start = current[1].idx
                /\ last'.events # <<>>
                /\ last'.events[1].e \in {"read", "readerr"}
                /\ last'.events[1].idx = current[1].idx]_vars

\* read_line met the invalid byte of standard input; standard input is still current.
C7_Witness ==
    /\ last.op = "read_line" /\ last.ret.err = "InvalidData"
    /\ IsSome(current) /\ current[1].tok = "-"
    /\ stdin.pos = Len(StdinData)

\* The number of handles held just before step i of the last call.
HeldBefore(i) ==
    (IF last.start > 0 THEN 1 ELSE 0)
    + Cardinality({j \in 1..(i - 1) : last.events[j].e = "open"})
    - Cardinality({j \in 1..(i - 1) : last.events[j].e = "drop"})

\* C8: at most one handle is open, between calls and at every step inside a
\* call: the handles held are exactly the current source, and whenever a token
\* is opened the source before it has been dropped already.
C8_AtMostOneHandle ==
    /\ held = IF IsSome(current) THEN 1 ELSE 0
    /\ last.maxHeld <= 1
    /\ \A i \in 1..Len(last.events) :
          last.events[i].e \in {"open", "openfail"} => HeldBefore(i) = 0

\* ["-", "-"]: one call dropped the first standard-input lock and then took the second.
C8_Witness ==
    /\ argv = <<"prog", "-", "-">>
    /\ \E i \in 1..(Len(last.events) - 1) :
          /\ last.events[i] = Event("drop", 1, "-", 0, 0)
          /\ last.events[i + 1] = Event("open", 2, "-", 0, 0)

\* C9: construction, line_iter(), reader() and consume open nothing; a token
\* is opened only by a read operation, at a step where no source is current,
\* in token order, and after the token before it was read to its end and
\* dropped or failed to open; the current source is always the last token
\* pulled; a read that gets bytes from the source current at its start does
\* nothing else.
C9_LazyInOrder ==
    /\ last.op \notin ReadOps => last.events = <<>>
    /\ last.op = "new" => pulled = <<>> /\ held = 0 /\ ~IsSome(current) /\ ~IsSome(remaining)
    /\ IsSome(current) => current[1].idx = Len(pulled)
    /\ \A i \in 1..Len(last.events) :
          /\ last.events[i].e \in {"open", "openfail"} =>
                /\ HeldBefore(i) = 0
                /\ last.events[i].tok = ExpectedTokens[last.events[i].idx]
                /\ i = 1 => last.start = 0
                /\ i > 1 => last.events[i - 1] = Event("drop", last.events[i].idx - 1,
                                                       ExpectedTokens[last.events[i].idx - 1], 0, 0)
          /\ last.events[i].e = "drop" =>
                /\ i > 1
                /\ last.events[i - 1].e = "read" /\ last.events[i - 1].n = 0
                /\ last.events[i - 1].idx = last.events[i].idx
    /\ (last.events # <<>> /\ last.events[1].e = "read" /\ last.events[1].n > 0)
          => Len(last.events) = 1

\* [E, A]: one call opened the empty E, dropped it, then opened A and read from it.
C9_Witness ==
    /\ argv = <<"prog", "E", "A">>
    /\ Len(last.events) = 5
    /\ last.events[1].e = "open" /\ last.events[1].idx = 1
    /\ last.events[4].e = "open" /\ last.events[4].idx = 2
    /\ last.events[5].e = "read" /\ last.events[5].n > 0

\* C10: the tokens pulled are always a prefix of the expected ones, the
\* arguments in order, or the single "-" when there are none, and they are
\* all of them once the end has been returned; nothing more is ever pulled.
C10_TokensAreArgsOrDash ==
    /\ IsPrefix(pulled, ExpectedTokens)
    /\ eof >= 1 => pulled = ExpectedTokens
    /\ Tail(argv) = <<>> => (pulled = <<>> \/ pulled = <<"-">>)
    /\ Tail(argv) # <<>> => Len(pulled) <= Len(argv) - 1

\* No arguments: standard input was the one token pulled, and reads went on after the end.
C10_Witness == argv = <<"prog">> /\ pulled = <<"-">> /\ eof = 2

\* A step in which an operation ran and left its record: the caller clearing
\* its buffer changes none of these.
CallStep == last' # last \/ eof' # eof \/ delivered' # delivered

\* C11: a read_until that returns Ok(n) leaves in the caller's buffer what was
\* there before the call followed by exactly n new bytes, the bytes the call
\* reports; when it returns Ok(0) the buffer is as it was.
C11_ReadUntilAppends ==
    [][(CallStep /\ last'.op = "read_until" /\ last'.ret.ok) =>
          /\ buf' = buf \o last'.data
          /\ Len(buf') = Len(buf) + last'.ret.n
          /\ last'.ret.n = 0 => buf' = buf]_vars

\* A="x\ny", B="z\n": "y" was left in the buffer and the next read_until put
\* B's line after it.
C11_Witness ==
    /\ argv = <<"prog", "A", "B">>
    /\ last.op = "read_until" /\ last.ret = Ok(2) /\ last.data = <<122, NL>>
    /\ buf = <<121, 122, NL>>

\* C12: a step of line_iter is a read_line into an empty buffer: it ends the
\* iteration exactly when that read returns Ok(0), which is at the end of all
\* sources and stays so; an Ok item is the whole of what read_line appended,
\* the unread bytes of one source through the first newline, newline kept, or
\* through the source's end; an error is an item of its own; and while
\* nothing has failed the items follow the sources' contents in order.
C12_LineIterIsReadLine ==
    last.op \in {"next_some", "next_none"} =>
        /\ last.op = "next_none" <=> last.ret = Ok(0)
        /\ last.op = "next_none" =>
              last.data = <<>> /\ ~IsSome(current) /\ RemainingExhausted /\ eof >= 1
        /\ eof >= 1 => last.op = "next_none"
        /\ (last.op = "next_some" /\ last.ret.ok) =>
              /\ last.ret.n > 0 /\ last.ret.n = Len(last.data)
              /\ PositiveReads = {Len(last.events)}
              /\ last.data = Record(Data(LastEvent), LastEvent.from, NL)
              /\ ValidUtf8(last.data)
        /\ ~last.ret.ok => last.op = "next_some" /\ last.ret.err # ""
        /\ ~failed =>
              /\ IsPrefix(delivered, AllContent)
              /\ last.op = "next_none" => delivered = AllContent

\* A="x\ny", B="z\n": the iterator has just yielded "z\n", after "x\n" and "y".
C12_Witness ==
    /\ argv = <<"prog", "A", "B">>
    /\ last.op = "next_some" /\ last.ret = Ok(2) /\ last.data = <<122, NL>>
    /\ delivered = <<120, NL, 121, 122, NL>>
    /\ ~failed

\* C13: before the first read no source is current.  After a read_until that
\* returns a positive count a source is current; it is the token at its
\* position in the argument list, that position is not before any token
\* pulled up to the call, so not before the one current after an earlier
\* read, and the token is found in the argument list from the position
\* current before the call on.  After a read_until that returns 0 no source
\* is current.
C13_CurrentSourceTracking ==
    [][/\ pulled = <<>> => current_arg = None
       /\ IsSome(current) => current[1].idx <= Len(pulled)
       /\ Len(pulled) <= Len(pulled')
       /\ (CallStep /\ last'.op = "read_until" /\ last'.ret.ok /\ last'.ret.n > 0) =>
             /\ IsSome(current_arg')
             /\ current'[1].idx >= Len(pulled)
             /\ IsSome(current) => current'[1].idx >= current[1].idx
             /\ current_arg'[1] = ExpectedTokens[current'[1].idx]
             /\ \E p \in Max(1, last'.start)..Len(ExpectedTokens) :
                   ExpectedTokens[p] = current_arg'[1]
       /\ (CallStep /\ last'.op = "read_until" /\ last'.ret = Ok(0)) =>
             current_arg' = None]_vars

\* [A, B]: a read_until that began with A current has returned bytes of B.
C13_Witness ==
    /\ argv = <<"prog", "A", "B">>
    /\ last.op = "read_until" /\ last.ret.ok /\ last.ret.n > 0
    /\ last.start = 1
    /\ current_arg = Some("B") /\ current[1].idx = 2

\* C14: on the reader() stream an empty fill_buf, or a read into a non-empty
\* buffer that returns 0, happens only with no source current and every
\* token pulled; inside a fill_buf or read, a source that reports empty is
\* dropped at once and, while tokens remain, the next one is opened in the
\* same call; and a call that succeeds ends either having exposed at least
\* one byte of the source now current or at the end of all sources.
C14_StreamEndsOnlyAtTheEnd ==
    (mode = "reader" /\ last.op \in {"fill_buf", "read"}) =>
        /\ StreamEnd =>
              ~IsSome(current) /\ RemainingExhausted /\ pulled = ExpectedTokens /\ held = 0
        /\ (last.op = "fill_buf" /\ last.ret.ok) =>
              /\ Len(peek) = last.ret.n
              /\ peek = <<>> <=> (~IsSome(current) /\ RemainingExhausted)
        /\ \A i \in 1..Len(last.events) :
              (last.events[i].e = "read" /\ last.events[i].n = 0) =>
                  /\ i < Len(last.events)
                  /\ last.events[i + 1] =
                        Event("drop", last.events[i].idx, last.events[i].tok, 0, 0)
                  /\ last.events[i].idx < Len(ExpectedTokens) =>
                        /\ i + 2 <= Len(last.events)
                        /\ last.events[i + 2].e \in {"open", "openfail"}
                        /\ last.events[i + 2].idx = last.events[i].idx + 1
        /\ last.ret.ok =>
              \/ /\ last.events # <<>>
                 /\ LastEvent.e = "read" /\ LastEvent.n > 0
                 /\ IsSome(current) /\ current[1].idx = LastEvent.idx
              \/ ~IsSome(current) /\ RemainingExhausted

\* [E, E, A]: one fill_buf opened and dropped both empty files, then lent bytes of A.
C14_Witness ==
    /\ argv = <<"prog", "E", "E", "A">>
    /\ last.op = "fill_buf" /\ last.ret.ok /\ peek # <<>>
    /\ Len(last.events) = 8
    /\ last.events[3] = Event("drop", 1, "E", 0, 0)
    /\ last.events[6] = Event("drop", 2, "E", 0, 0)
    /\ LastEvent.idx = 3 /\ LastEvent.n > 0

SegmentedOps == {"read_until", "read_line", "next_some", "next_none"}

\* C15: a read_until / read_line (also as a step of line_iter) returns Ok(0)
\* only with no source current and every token pulled, standard input, if it
\* was a token, read to its end, and, while nothing has failed, every byte of
\* every source delivered; a source that yields 0 bytes is dropped and the
\* next token opened inside the same call; and a call that reaches the end
\* of all sources without an open failure returns Ok(0), not an error.
C15_ZeroOnlyAtTheEnd ==
    last.op \in SegmentedOps =>
        /\ last.ret = Ok(0) =>
              /\ ~IsSome(current) /\ RemainingExhausted /\ pulled = ExpectedTokens
              /\ (\E k \in 1..Len(pulled) : pulled[k] = "-") =>
                    stdin.pos = Len(StdinData) /\ stdin.avail = 0
              /\ ~failed => delivered = AllContent
              /\ last.data = <<>>
        /\ \A i \in 1..Len(last.events) :
              (last.events[i].e = "read" /\ last.events[i].n = 0) =>
                  /\ i < Len(last.events)
                  /\ last.events[i + 1].e = "drop"
                  /\ last.events[i + 1].idx = last.events[i].idx
                  /\ last.events[i].idx < Len(ExpectedTokens) =>
                        /\ i + 2 <= Len(last.events)
                        /\ last.events[i + 2] =
                              Event(IF ExpectedTokens[last.events[i].idx + 1] = "N"
                                    THEN "openfail" ELSE "open",
                                    last.events[i].idx + 1,
                                    ExpectedTokens[last.events[i].idx + 1], 0, 0)
        /\ (~IsSome(current) /\ OpenFailures = {}) =>
              last.ret = Ok(0) /\ RemainingExhausted
        /\ ~last.ret.ok => (last.ret.n = 0 /\ last.ret.err \in ReadErrs \cup {"NotFound"})

\* [A, E, B]: a read_line that began at the end of A dropped it, skipped the
\* empty E and returned B's line.
C15_Witness ==
    /\ argv = <<"prog", "A", "E", "B">>
    /\ last.op = "read_line" /\ last.ret = Ok(2) /\ last.data = <<122, NL>>
    /\ last.start = 1
    /\ Len(last.events) = 7
    /\ last.events[1].e = "read" /\ last.events[1].n = 0 /\ last.events[1].idx = 1
    /\ last.events[4].e = "read" /\ last.events[4].n = 0 /\ last.events[4].idx = 2

\* The slice the current source would lend next, nothing failing.
NextSlice == ReaderFillBuf(Start(0)).slice

TokensLeft ==
    IF IsSome(remaining) THEN Len(argv) + 1 - remaining[1] ELSE Len(ExpectedTokens)

\* The ordinals of the sources the last call dropped.
Dropped(call) == {call.events[i].idx : i \in {j \in 1..Len(call.events) : call.events[j].e = "drop"}}

\* C17: the reader only moves forward.  In every step the tokens pulled so
\* far stay as they are and any new ones are the next tokens in order, each
\* token being pulled once; the iterator, once started, is never reset and
\* the number of tokens left to pull never increases; a call opens only
\* tokens that had not been pulled before it; and a source that was dropped,
\* in this call or an earlier one, is not current afterwards: the current
\* source is never an earlier token than before.
C17_OnlyForward ==
    [][/\ IsPrefix(pulled, pulled')
       /\ pulled' = SubSeq(ExpectedTokens, 1, Len(pulled'))
       /\ TokensLeft' = Len(ExpectedTokens) - Len(pulled')
       /\ TokensLeft' <= TokensLeft
       /\ IsSome(remaining) => (IsSome(remaining') /\ remaining'[1] >= remaining[1])
       /\ CallStep =>
             \A i \in 1..Len(last'.events) :
                 last'.events[i].e \in {"open", "openfail"} =>
                     /\ last'.events[i].idx > Len(pulled)
                     /\ last'.events[i].idx <= Len(pulled')
       /\ IsSome(current') =>
             /\ IsSome(current) => current'[1].idx >= current[1].idx
             /\ current'[1].idx \notin Dropped(last) \cup Dropped(last')
             /\ current'[1].idx = Len(pulled')
       /\ (IsSome(current) /\ ~IsSome(current')) => current[1].idx \in Dropped(last')
      ]_vars

\* [A, B, A]: A was read and dropped, B was read and dropped, and the third
\* token, A again, is a source of its own, opened and read from its start.
C17_Witness ==
    /\ argv = <<"prog", "A", "B", "A">>
    /\ pulled = <<"A", "B", "A">>
    /\ IsSome(current) /\ current[1].idx = 3 /\ TokensLeft = 0
    /\ delivered = Files["A"] \o Files["B"] \o <<120, NL>>

\* The cursor of the current source in the state after a step.
CursorAfter == Cursor([current |-> current', stdin |-> stdin'])

\* C18: with no source current, consume of any amount leaves the reader as
\* it is; and a consume step returns no error, pulls and opens nothing, and,
\* when a source is current, leaves that source current and moves its
\* cursor, and nothing else, forward by the amount consumed.
C18_ConsumeFrame ==
    [][/\ ~IsSome(current) => \A a \in 0..BufCap : consume(Start(0), a) = Start(0)
       /\ last'.op = "consume" =>
             /\ last'.ret = Ok(last'.arg) /\ last'.events = <<>>
             /\ failed' = failed
             /\ pulled' = pulled /\ remaining' = remaining /\ held' = held
             /\ IsSome(current') <=> IsSome(current)
             /\ ~IsSome(current) => (stdin' = stdin /\ delivered' = delivered)
             /\ IsSome(current) =>
                   /\ current'[1].idx = current[1].idx /\ current'[1].tok = current[1].tok
                   /\ CursorAfter.pos = Cursor(Start(0)).pos + last'.arg
                   /\ CursorAfter.avail = Cursor(Start(0)).avail - last'.arg
                   /\ current[1].tok = "-" => current' = current
                   /\ current[1].tok # "-" => stdin' = stdin]_vars

\* reader() on [A], then consume before any fill: nothing is current, pulled or open.
C18_Witness ==
    /\ argv = <<"prog", "A">>
    /\ mode = "reader" /\ last.op = "consume"
    /\ ~IsSome(current) /\ ~IsSome(remaining) /\ pulled = <<>> /\ held = 0

\* The unread bytes of the tokens from the k-th on, standard input being at sp.
RECURSIVE RestFrom(_, _)
RestFrom(k, sp) ==
    IF k > Len(ExpectedTokens) THEN <<>>
    ELSE IF ExpectedTokens[k] = "-"
    THEN SubSeq(StdinData, sp + 1, Len(StdinData)) \o RestFrom(k + 1, Len(StdinData))
    ELSE IF ExpectedTokens[k] \in DOMAIN Files
    THEN Files[ExpectedTokens[k]] \o RestFrom(k + 1, sp)
    ELSE RestFrom(k + 1, sp)

\* The not-yet-read bytes of the current source followed by the contents of
\* the sources still to come.
Rest ==
    IF ~IsSome(current) THEN RestFrom(Len(pulled) + 1, stdin.pos)
    ELSE IF current[1].tok = "-"
    THEN SubSeq(StdinData, stdin.pos + 1, Len(StdinData))
         \o RestFrom(Len(pulled) + 1, Len(StdinData))
    ELSE SubSeq(Files[current[1].tok], current[1].pos + 1, Len(Files[current[1].tok]))
         \o RestFrom(Len(pulled) + 1, stdin.pos)

\* Segmented reads with f, each into an empty buffer, repeated from d up to
\* the 0 result: the bytes they return, one after the other.
RECURSIVE DrainSegmented(_, _, _)
DrainSegmentedNext(r, f, acc) ==
    IF ~r.ret.ok THEN [ok |-> FALSE, bytes |-> acc]
    ELSE IF r.ret.n = 0 THEN [ok |-> TRUE, bytes |-> acc]
    ELSE DrainSegmented(r.d, f, acc \o r.out)

DrainSegmented(d, f, acc) == DrainSegmentedNext(read_inner(d, f, <<>>), f, acc)

\* reader() taken at d and read len bytes at a time up to its 0 result.
RECURSIVE DrainStream(_, _, _)
DrainStreamNext(r, len, acc) ==
    IF ~r.ret.ok THEN [ok |-> FALSE, bytes |-> acc]
    ELSE IF r.ret.n = 0 THEN [ok |-> TRUE, bytes |-> acc]
    ELSE DrainStream(r.d, len, acc \o r.out)

DrainStream(d, len, acc) == DrainStreamNext(read(d, len), len, acc)

\* No token still to be pulled fails to open.
NoOpenFailureAhead == \A k \in (Len(pulled) + 1)..Len(ExpectedTokens) : ExpectedTokens[k] # "N"

\* C19: in every state reached by read_until / read_line calls from which no
\* open failure lies ahead, reading on with read_until, for either
\* delimiter, up to its 0 result, and taking reader() there and reading it up
\* to its 0 result, both succeed and return the same bytes: the unread bytes
\* of the current source followed by the contents of the sources to come;
\* reading on with read_line returns them too unless it meets invalid UTF-8;
\* and while nothing has failed these are the bytes not delivered yet.
C19_SegmentedEqualsStream ==
    (mode = "diamond" /\ buf = <<>> /\ NoOpenFailureAhead) =>
        /\ \A byte \in Delims :
              DrainSegmented(Start(0), ReadUntilFn(byte), <<>>) = [ok |-> TRUE, bytes |-> Rest]
        /\ \A len \in 1..BufCap :
              DrainStream(Start(0), len, <<>>) = [ok |-> TRUE, bytes |-> Rest]
        /\ ValidUtf8(Rest) =>
              DrainSegmented(Start(0), ReadLineFn, <<>>) = [ok |-> TRUE, bytes |-> Rest]
        /\ ~failed => delivered \o Rest = AllContent

\* [A, B] after one read_line: "y" of A and all of B are still to come.
C19_Witness ==
    /\ argv = <<"prog", "A", "B">>
    /\ mode = "diamond" /\ buf = <<>> /\ ~failed
    /\ delivered = <<120, NL>>
    /\ Rest = <<121, 122, NL>>
    /\ DrainStream(Start(0), 1, <<>>).bytes = DrainSegmented(Start(0), ReadLineFn, <<>>).bytes

Opens == {i \in 1..Len(last.events) : last.events[i].e \in {"open", "openfail"}}

DelegatedReads == {i \in 1..Len(last.events) : last.events[i].e \in {"read", "readerr"}}

\* The tokens that were still to be pulled when the last call began.
TokensLeftAtStart == Len(ExpectedTokens) - Len(pulled) + Cardinality(Opens)

\* The passes of its loop a read operation has made: one per token it
\* pulled, one per delegated read, each source being read once, and one more
\* when it found nothing left; so at most two per token that was left and two
\* more.
PassBound ==
    last.op \in ReadOps =>
        /\ last.iters = Cardinality(Opens) + Cardinality(DelegatedReads)
                         + (IF last.ret.ok /\ (last.events = <<>> \/ LastEvent.e = "drop")
                            THEN 1 ELSE 0)
        /\ \A i, j \in DelegatedReads : last.events[i].idx = last.events[j].idx => i = j
        /\ Cardinality(Opens) <= TokensLeftAtStart
        /\ Cardinality(DelegatedReads) <= Cardinality(Opens) + (IF last.start > 0 THEN 1 ELSE 0)
        /\ last.iters <= 2 * TokensLeftAtStart + 2
        /\ last.iters >= 1

\* Every token pulled, nothing current, nothing held, and a read has returned 0.
AllDrained == eof >= 1 /\ pulled = ExpectedTokens /\ ~IsSome(current) /\ held = 0

\* C20: every read operation returns after a bounded number of passes of its
\* loop (PassBound), and a caller that keeps reading, with reads that meet no
\* I/O failure, eventually gets the zero-byte result, every token having
\* been pulled and every source dropped.
C20_ReadsTerminate == []PassBound /\ <>AllDrained

\* [E, E, A]: reads went on to the end; the last call began with A current,
\* read its end, dropped it and found no token left, in two passes.
C20_Witness ==
    /\ argv = <<"prog", "E", "E", "A">>
    /\ AllDrained /\ ~failed
    /\ delivered = Files["A"]
    /\ last.op \in SegmentedOps /\ last.iters = 2 /\ last.start = 3

====
